---- MODULE Spec2Model ----
\* Model of Skyecodev1.py: the wake-word loop of main, one call session
\* (tavus_cvi_meeting), its two worker threads (capture_and_process_video and
\* motor_sync) and the Bluetooth send they share (send_to_seeed_bluetooth).
EXTENDS Integers, FiniteSets, Sequences, TLC

\* ------------------------------------------------------------------ bounds
\* Sessions main may start in one process run (main's while True is unbounded).
MaxSessions == 2
\* Cap of the history counter of consecutive failed sends.
MaxConsecFail == 6
\* Cap of the history counters of what happens after a stop signal.
MaxLate == 2

\* --------------------------------------------------------- program constants
TOTAL_ROTATIONS == 10

Sessions == 1..MaxSessions
Kinds == {"video", "motor"}
Threads == Kinds \X Sessions

VARIABLES
  video_capture_running,  \* global flag, line 55
  motor_running,          \* global flag, line 56
  current_rotation,       \* global index, line 57
  main_pc,                \* control location of main / tavus_cvi_meeting
  session,                \* number of calls of tavus_cvi_meeting so far
  call_state,             \* "none", "running", "returned", "raised": the last call of tavus_cvi_meeting
  stop_reason,            \* "none", "exit", "error": how the listening loop of the call ended
  tpc,                    \* control location of each worker thread
  conn,                   \* whether the thread's socket is connected (between connect and close)
  sres,                   \* outcome of the send of the thread's present iteration: "none", "ok", "failed"
  hall,                   \* level of the hall sensor input, TRUE = GPIO.HIGH
  ticks,                  \* history: high readings accepted by motor_sync in this session
  dispatched,             \* history: sends completed by the dispatch path in this session
  pulse_counted,          \* history: the present high pulse has already advanced the index
  send_fails,             \* history: consecutive failed sends of this session
  payload,                \* the data argument of the thread's call of send_to_seeed_bluetooth
  late,                   \* history: sends completed and ticks accepted after both flags were cleared
  conversation_url        \* main's local of line 222: "unset", "url" or "None"

vars == <<video_capture_running, motor_running, current_rotation, main_pc, session,
          call_state, stop_reason, tpc, conn, sres, hall, ticks, dispatched,
          pulse_counted, send_fails, payload, late, conversation_url>>

flags == <<video_capture_running, motor_running>>
main_vars == <<main_pc, session, call_state, stop_reason>>
send_vars == <<conn, sres, send_fails>>
tick_vars == <<current_rotation, ticks, dispatched, pulse_counted>>

\* No call of send_to_seeed_bluetooth in progress.
NoPayload == [kind |-> "none", index |-> 0]

\* A history counter of late advanced by one, up to its cap.
Bump(n) == IF n < MaxLate THEN n + 1 ELSE n

\* Nothing has happened after a stop signal.
NoneLate == [video |-> 0, motor |-> 0, ticks |-> 0]

\* tavus_cvi_meeting has cleared both flags (lines 133-134) and has not yet
\* reported the call ended (line 140).
StopSignalled == main_pc \in {"join_video", "join_motor", "call_ended"}

Terminated == {"done", "crashed"}
Alive(t) == tpc[t] \notin ({"none"} \cup Terminated)

\* Lines 55-56 and the start of main: everything but the index.
InitRest ==
  /\ video_capture_running = FALSE
  /\ motor_running = FALSE
  /\ main_pc = "wake"
  /\ session = 0
  /\ call_state = "none"
  /\ stop_reason = "none"
  /\ tpc = [t \in Threads |-> "none"]
  /\ conn = [t \in Threads |-> FALSE]
  /\ sres = [t \in Threads |-> "none"]
  /\ hall \in BOOLEAN
  /\ ticks = 0
  /\ dispatched = 0
  /\ pulse_counted = FALSE
  /\ send_fails = 0
  /\ payload = [t \in Threads |-> NoPayload]
  /\ late = NoneLate
  /\ conversation_url = "unset"

\* Line 57: current_rotation = 0.
Init == current_rotation = 0 /\ InitRest

\* main at its wake-word loop after earlier sessions of the same run: they
\* leave nothing behind but the index. Its values taken here are the first
\* one and the last two before the wrap-around.
InitAnyIndex ==
  /\ current_rotation \in {0, TOTAL_ROTATIONS - 2, TOTAL_ROTATIONS - 1}
  /\ InitRest

\* ------------------------------------------------------------ environment
\* The hall sensor input changes level.
HallChange ==
  /\ hall' = ~hall
  /\ pulse_counted' = (IF hall THEN FALSE ELSE pulse_counted)
  /\ UNCHANGED <<flags, current_rotation, main_vars, tpc, send_vars, ticks, dispatched, payload, late, conversation_url>>

\* ------------------------------------------------------------------- main
\* listen_for_phrase: the phrase is heard, the timeout passes, or
\* recognizer.listen raises out of recognize_speech (it is outside its try).
ListenOutcomes == {"heard", "not_heard", "raise"}

\* main, line 218: if await listen_for_phrase(WAKE_WORD)
MainListenWake ==
  /\ main_pc = "wake"
  /\ \E o \in ListenOutcomes :
       main_pc' = (CASE o = "heard" -> "trigger"
                     [] o = "not_heard" -> "wake"
                     [] OTHER -> "cleanup")
  /\ UNCHANGED <<flags, tick_vars, session, call_state, stop_reason, tpc, send_vars, hall, payload, late, conversation_url>>

\* main, line 221: if await listen_for_phrase(FACETIME_TRIGGER, timeout=10)
MainListenTrigger ==
  /\ main_pc = "trigger"
  /\ \E o \in ListenOutcomes :
       main_pc' = (CASE o = "heard" -> "create"
                     [] o = "not_heard" -> "wake"
                     [] OTHER -> "cleanup")
  /\ UNCHANGED <<flags, tick_vars, session, call_state, stop_reason, tpc, send_vars, hall, payload, late, conversation_url>>

\* A main that starts the call whatever create_tavus_conversation returned.
MainCreateConversationNoCheck ==
  /\ main_pc = "create"
  /\ session < MaxSessions
  /\ \E url \in {"url", "None"} :
       /\ conversation_url' = url
       /\ main_pc' = "open"
  /\ UNCHANGED <<flags, tick_vars, session, call_state, stop_reason, tpc, send_vars, hall,
                 payload, late>>

\* main, lines 222-226: create_tavus_conversation returns a URL, or None on
\* a RequestException; the call is started only with a URL.
MainCreateConversation ==
  /\ main_pc = "create"
  /\ \E url \in {"url", "None"} :
       /\ conversation_url' = url
       /\ IF url = "url"
            THEN session < MaxSessions /\ main_pc' = "open"
            ELSE main_pc' = "wake"
  /\ UNCHANGED <<flags, tick_vars, session, call_state, stop_reason, tpc, send_vars, hall,
                 payload, late>>

\* tavus_cvi_meeting, lines 106-112: the call begins and opens the browser.
TavusOpen ==
  /\ main_pc = "open"
  /\ session' = session + 1
  /\ call_state' = "running"
  /\ stop_reason' = "none"
  /\ main_pc' = "start_video"
  /\ ticks' = 0
  /\ dispatched' = 0
  /\ send_fails' = 0
  /\ late' = NoneLate
  /\ UNCHANGED <<flags, current_rotation, pulse_counted, tpc, conn, sres, hall, payload,
                 conversation_url>>

\* tavus_cvi_meeting, lines 115-117: the flag is set, then the thread is
\* started; Thread.start may raise RuntimeError, which leaves the function.
TavusStartVideo ==
  /\ main_pc = "start_video"
  /\ video_capture_running' = TRUE
  /\ \E ok \in BOOLEAN :
       IF ok
         THEN /\ tpc' = [tpc EXCEPT ![<<"video", session>>] = "loop"]
              /\ main_pc' = "start_motor"
              /\ UNCHANGED call_state
         ELSE /\ main_pc' = "cleanup"
              /\ call_state' = "raised"
              /\ UNCHANGED tpc
  /\ UNCHANGED <<motor_running, tick_vars, session, stop_reason, send_vars, hall, payload, late, conversation_url>>

\* tavus_cvi_meeting, lines 120-122.
TavusStartMotor ==
  /\ main_pc = "start_motor"
  /\ motor_running' = TRUE
  /\ \E ok \in BOOLEAN :
       IF ok
         THEN /\ tpc' = [tpc EXCEPT ![<<"motor", session>>] = "setup"]
              /\ main_pc' = "listen"
              /\ UNCHANGED call_state
         ELSE /\ main_pc' = "cleanup"
              /\ call_state' = "raised"
              /\ UNCHANGED tpc
  /\ UNCHANGED <<video_capture_running, tick_vars, session, stop_reason, send_vars, hall, payload, late, conversation_url>>

\* A listening loop whose exception is not caught and has no finally clause.
TavusListenExitUncaught ==
  /\ main_pc = "listen"
  /\ \E o \in ListenOutcomes :
       CASE o = "heard" -> main_pc' = "stop_video" /\ stop_reason' = "exit" /\ UNCHANGED call_state
         [] o = "not_heard" -> UNCHANGED <<main_pc, stop_reason, call_state>>
         [] OTHER -> main_pc' = "cleanup" /\ stop_reason' = "error" /\ call_state' = "raised"
  /\ UNCHANGED <<flags, tick_vars, session, tpc, send_vars, hall, payload, late, conversation_url>>

\* tavus_cvi_meeting, lines 124-130: the exit phrase is heard (break), is not
\* heard (next iteration), or listening raises (caught at line 129).
TavusListenExit ==
  /\ main_pc = "listen"
  /\ \E o \in ListenOutcomes :
       CASE o = "heard" -> main_pc' = "stop_video" /\ stop_reason' = "exit"
         [] o = "not_heard" -> UNCHANGED <<main_pc, stop_reason>>
         [] OTHER -> main_pc' = "stop_video" /\ stop_reason' = "error"
  /\ UNCHANGED <<flags, tick_vars, session, call_state, tpc, send_vars, hall, payload, late, conversation_url>>

\* tavus_cvi_meeting, line 133.
TavusStopVideo ==
  /\ main_pc = "stop_video"
  /\ video_capture_running' = FALSE
  /\ main_pc' = "stop_motor"
  /\ UNCHANGED <<motor_running, tick_vars, session, call_state, stop_reason, tpc, send_vars, hall, payload, late, conversation_url>>

\* tavus_cvi_meeting, line 134.
TavusStopMotor ==
  /\ main_pc = "stop_motor"
  /\ motor_running' = FALSE
  /\ main_pc' = "join_video"
  /\ UNCHANGED <<video_capture_running, tick_vars, session, call_state, stop_reason, tpc, send_vars, hall, payload, late, conversation_url>>

\* A join that does not wait for its thread.
JoinedNoWait(t) == TRUE

\* Thread.join returns once the thread has ended, normally or on an exception.
Joined(t) == tpc[t] \in Terminated

\* tavus_cvi_meeting, line 135.
TavusJoinVideo ==
  /\ main_pc = "join_video"
  /\ Joined(<<"video", session>>)
  /\ main_pc' = "join_motor"
  /\ UNCHANGED <<flags, tick_vars, session, call_state, stop_reason, tpc, send_vars, hall, payload, late, conversation_url>>

\* tavus_cvi_meeting, line 136.
TavusJoinMotor ==
  /\ main_pc = "join_motor"
  /\ Joined(<<"motor", session>>)
  /\ main_pc' = "call_ended"
  /\ UNCHANGED <<flags, tick_vars, session, call_state, stop_reason, tpc, send_vars, hall, payload, late, conversation_url>>

\* tavus_cvi_meeting, lines 139-140: pkill, "Call ended.", return to main's
\* loop; the history of the call's sends and of its teardown ends with it.
TavusCallEnded ==
  /\ main_pc = "call_ended"
  /\ main_pc' = "wake"
  /\ call_state' = "returned"
  /\ send_fails' = 0
  /\ late' = NoneLate
  /\ UNCHANGED <<flags, tick_vars, session, stop_reason, tpc, conn, sres, hall, payload,
                 conversation_url>>

\* main, lines 231-234 and cleanup, lines 201-208: an exception reached main.
Cleanup ==
  /\ main_pc = "cleanup"
  /\ video_capture_running' = FALSE
  /\ motor_running' = FALSE
  /\ main_pc' = "exited"
  /\ UNCHANGED <<tick_vars, session, call_state, stop_reason, tpc, send_vars, hall, payload, late, conversation_url>>

\* -------------------------------------------------- send_to_seeed_bluetooth
\* A send whose exception is not caught: it ends the calling thread.
SendRaiseUnhandled(t) ==
  /\ sres' = [sres EXCEPT ![t] = "failed"]
  /\ send_fails' = (IF send_fails < MaxConsecFail THEN send_fails + 1 ELSE send_fails)
  /\ tpc' = [tpc EXCEPT ![t] = "crashed"]
  /\ UNCHANGED conn

\* Lines 192-197: a BluetoothError or any other Exception of connect or send
\* is logged and swallowed; control goes on to the finally clause.
SendRaise(t) ==
  /\ sres' = [sres EXCEPT ![t] = "failed"]
  /\ send_fails' = (IF send_fails < MaxConsecFail THEN send_fails + 1 ELSE send_fails)
  /\ tpc' = [tpc EXCEPT ![t] = "s_close"]
  /\ UNCHANGED conn

\* Line 190: sock.connect((BLUETOOTH_ADDRESS, 1)).
SendConnect(t) ==
  /\ tpc[t] = "s_connect"
  /\ \E ok \in BOOLEAN :
       IF ok
         THEN /\ conn' = [conn EXCEPT ![t] = TRUE]
              /\ tpc' = [tpc EXCEPT ![t] = "s_send"]
              /\ UNCHANGED <<sres, send_fails>>
         ELSE SendRaise(t)
  /\ UNCHANGED <<flags, tick_vars, main_vars, hall, payload, late, conversation_url>>

\* Line 191: sock.send(data).
SendData(t) ==
  /\ tpc[t] = "s_send"
  /\ \E ok \in BOOLEAN :
       IF ok
         THEN /\ sres' = [sres EXCEPT ![t] = "ok"]
              /\ send_fails' = 0
              /\ tpc' = [tpc EXCEPT ![t] = "s_close"]
              /\ UNCHANGED conn
         ELSE SendRaise(t)
  /\ UNCHANGED <<flags, tick_vars, main_vars, hall, payload, late, conversation_url>>

\* A return that leaves the socket as it is.
SendCloseNoClose(t) ==
  /\ tpc[t] = "s_close"
  /\ tpc' = [tpc EXCEPT ![t] = "sleep"]
  /\ dispatched' = (IF t[1] = "motor" THEN dispatched + 1 ELSE dispatched)
  /\ payload' = [payload EXCEPT ![t] = NoPayload]
  /\ late' = (IF StopSignalled /\ t[2] = session
               THEN [late EXCEPT ![t[1]] = Bump(@)]
               ELSE late)
  /\ UNCHANGED <<flags, current_rotation, ticks, pulse_counted, main_vars, conn, sres,
                 send_fails, hall, conversation_url>>

\* Line 197: sock.close(), then the return to the caller's next statement,
\* which is the sleep of either loop (lines 158 and 177).
SendClose(t) ==
  /\ tpc[t] = "s_close"
  /\ conn' = [conn EXCEPT ![t] = FALSE]
  /\ tpc' = [tpc EXCEPT ![t] = "sleep"]
  /\ dispatched' = (IF t[1] = "motor" THEN dispatched + 1 ELSE dispatched)
  /\ payload' = [payload EXCEPT ![t] = NoPayload]
  /\ late' = (IF StopSignalled /\ t[2] = session
               THEN [late EXCEPT ![t[1]] = Bump(@)]
               ELSE late)
  /\ UNCHANGED <<flags, current_rotation, ticks, pulse_counted, main_vars, sres, send_fails, hall,
                 conversation_url>>

\* ---------------------------------------------- capture_and_process_video
\* A loop test that does not read the flag.
VideoLoopTestNoFlag(s) ==
  /\ tpc[<<"video", s>>] = "loop"
  /\ tpc' = [tpc EXCEPT ![<<"video", s>>] = "capture"]
  /\ UNCHANGED <<flags, tick_vars, main_vars, send_vars, hall, payload, late, conversation_url>>

\* Line 154: while video_capture_running.
VideoLoopTest(s) ==
  /\ tpc[<<"video", s>>] = "loop"
  /\ tpc' = [tpc EXCEPT ![<<"video", s>>] =
               IF video_capture_running THEN "capture" ELSE "done"]
  /\ UNCHANGED <<flags, tick_vars, main_vars, send_vars, hall, payload, late, conversation_url>>

\* Line 155: capture_browser_window returns a frame, or raises (no handler in
\* the loop: the thread ends on the exception).
VideoCapture(s) ==
  /\ tpc[<<"video", s>>] = "capture"
  /\ \E ok \in BOOLEAN :
       tpc' = [tpc EXCEPT ![<<"video", s>>] = IF ok THEN "process" ELSE "crashed"]
  /\ UNCHANGED <<flags, tick_vars, main_vars, send_vars, hall, payload, late, conversation_url>>

\* Lines 156-157 and 188: the frame is resized to 64 x 64 and its bytes, the
\* whole frame, are passed to send_to_seeed_bluetooth; the result is a local
\* of the iteration and is stored nowhere else.
VideoProcess(s) ==
  /\ tpc[<<"video", s>>] = "process"
  /\ tpc' = [tpc EXCEPT ![<<"video", s>>] = "s_connect"]
  /\ payload' = [payload EXCEPT ![<<"video", s>>] = [kind |-> "frame", index |-> 0]]
  /\ UNCHANGED <<flags, tick_vars, main_vars, send_vars, hall, late, conversation_url>>

\* A loop that goes on to its next capture without testing the flag.
VideoSleepSkipsTest(s) ==
  /\ tpc[<<"video", s>>] = "sleep"
  /\ tpc' = [tpc EXCEPT ![<<"video", s>>] = "capture"]
  /\ sres' = [sres EXCEPT ![<<"video", s>>] = "none"]
  /\ UNCHANGED <<flags, tick_vars, main_vars, conn, send_fails, hall, payload, late, conversation_url>>

\* Line 158: time.sleep(0.01), then the next iteration.
VideoSleep(s) ==
  /\ tpc[<<"video", s>>] = "sleep"
  /\ tpc' = [tpc EXCEPT ![<<"video", s>>] = "loop"]
  /\ sres' = [sres EXCEPT ![<<"video", s>>] = "none"]
  /\ UNCHANGED <<flags, tick_vars, main_vars, conn, send_fails, hall, payload, late, conversation_url>>

\* -------------------------------------------------------------- motor_sync
\* Lines 169-170: GPIO.setmode, GPIO.setup.
MotorSetup(s) ==
  /\ tpc[<<"motor", s>>] = "setup"
  /\ tpc' = [tpc EXCEPT ![<<"motor", s>>] = "loop"]
  /\ UNCHANGED <<flags, tick_vars, main_vars, send_vars, hall, payload, late, conversation_url>>

\* Line 173: while motor_running.
MotorLoopTest(s) ==
  /\ tpc[<<"motor", s>>] = "loop"
  /\ tpc' = [tpc EXCEPT ![<<"motor", s>>] =
               IF motor_running THEN "poll" ELSE "done"]
  /\ UNCHANGED <<flags, tick_vars, main_vars, send_vars, hall, payload, late, conversation_url>>

\* An increment that does not wrap around.
NextRotationNoWrap(r) == r + 1

\* Line 175: the new value of the index on an accepted reading.
NextRotation(r) == (r + 1) % TOTAL_ROTATIONS

\* Lines 174-175: a high reading advances the index; a low one goes to the sleep.
MotorPoll(s) ==
  /\ tpc[<<"motor", s>>] = "poll"
  /\ IF hall
       THEN /\ current_rotation' = NextRotation(current_rotation)
            /\ ticks' = ticks + 1
            /\ pulse_counted' = TRUE
            /\ late' = (IF StopSignalled /\ s = session
                         THEN [late EXCEPT !.ticks = Bump(@)]
                         ELSE late)
            /\ tpc' = [tpc EXCEPT ![<<"motor", s>>] = "dispatch"]
       ELSE /\ tpc' = [tpc EXCEPT ![<<"motor", s>>] = "sleep"]
            /\ UNCHANGED <<current_rotation, ticks, pulse_counted, late, conversation_url>>
  /\ UNCHANGED <<flags, dispatched, main_vars, send_vars, hall, payload, conversation_url>>

\* A slice lookup that returns the slice of sector i.
get_frame_slice_found(i) == [raised |-> FALSE, slice |-> i]

\* Line 181: get_frame_slice is defined nowhere in the program, so the call
\* raises NameError.
get_frame_slice(i) == [raised |-> TRUE, slice |-> i]

\* send_next_frame_slice, lines 179-182, called at line 176: the lookup, then
\* the send of its result; an exception of the lookup has no handler in
\* motor_sync and ends the thread.
MotorDispatch(s) ==
  /\ tpc[<<"motor", s>>] = "dispatch"
  /\ LET frame_slice == get_frame_slice(current_rotation) IN
       IF frame_slice.raised
         THEN /\ tpc' = [tpc EXCEPT ![<<"motor", s>>] = "crashed"]
              /\ UNCHANGED payload
         ELSE /\ tpc' = [tpc EXCEPT ![<<"motor", s>>] = "s_connect"]
              /\ payload' = [payload EXCEPT ![<<"motor", s>>] =
                               [kind |-> "slice", index |-> frame_slice.slice]]
  /\ UNCHANGED <<flags, tick_vars, main_vars, send_vars, hall, late, conversation_url>>

\* Line 177: time.sleep(0.001), then the next iteration.
MotorSleep(s) ==
  /\ tpc[<<"motor", s>>] = "sleep"
  /\ tpc' = [tpc EXCEPT ![<<"motor", s>>] = "loop"]
  /\ sres' = [sres EXCEPT ![<<"motor", s>>] = "none"]
  /\ UNCHANGED <<flags, tick_vars, main_vars, conn, send_fails, hall, payload, late, conversation_url>>

\* One step of worker thread t.
ThreadStep(t) ==
  \/ SendConnect(t)
  \/ SendData(t)
  \/ SendClose(t)
  \/ t[1] = "video" /\ VideoLoopTest(t[2])
  \/ t[1] = "video" /\ VideoCapture(t[2])
  \/ t[1] = "video" /\ VideoProcess(t[2])
  \/ t[1] = "video" /\ VideoSleep(t[2])
  \/ t[1] = "motor" /\ MotorSetup(t[2])
  \/ t[1] = "motor" /\ MotorLoopTest(t[2])
  \/ t[1] = "motor" /\ MotorPoll(t[2])
  \/ t[1] = "motor" /\ MotorDispatch(t[2])
  \/ t[1] = "motor" /\ MotorSleep(t[2])

Next ==
  \/ HallChange
  \/ MainListenWake
  \/ MainListenTrigger
  \/ MainCreateConversation
  \/ TavusOpen
  \/ TavusStartVideo
  \/ TavusStartMotor
  \/ TavusListenExit
  \/ TavusStopVideo
  \/ TavusStopMotor
  \/ TavusJoinVideo
  \/ TavusJoinMotor
  \/ TavusCallEnded
  \/ Cleanup
  \/ \E t \in Threads : SendConnect(t)
  \/ \E t \in Threads : SendData(t)
  \/ \E t \in Threads : SendClose(t)
  \/ \E s \in Sessions : VideoLoopTest(s)
  \/ \E s \in Sessions : VideoCapture(s)
  \/ \E s \in Sessions : VideoProcess(s)
  \/ \E s \in Sessions : VideoSleep(s)
  \/ \E s \in Sessions : MotorSetup(s)
  \/ \E s \in Sessions : MotorLoopTest(s)
  \/ \E s \in Sessions : MotorPoll(s)
  \/ \E s \in Sessions : MotorDispatch(s)
  \/ \E s \in Sessions : MotorSleep(s)

Spec == Init /\ [][Next]_vars

\* The program from values of the index that earlier sessions can leave.
SpecAnyIndex == InitAnyIndex /\ [][Next]_vars

\* The scheduler runs every live thread and main's teardown; listening for a
\* phrase and the sensor are inputs and carry no fairness.
TeardownStep ==
  \/ TavusStopVideo
  \/ TavusStopMotor
  \/ TavusJoinVideo
  \/ TavusJoinMotor
  \/ TavusCallEnded

FairSpec ==
  /\ Spec
  /\ WF_vars(TeardownStep)
  /\ \A t \in Threads : WF_vars(ThreadStep(t))

TypeOK ==
  /\ video_capture_running \in BOOLEAN
  /\ motor_running \in BOOLEAN
  /\ current_rotation \in 0..(TOTAL_ROTATIONS - 1)
  /\ session \in 0..MaxSessions
  /\ hall \in BOOLEAN
  /\ send_fails \in 0..MaxConsecFail

\* ------------------------------------------------------------------ claims
\* The session that is running: its loops have been started and main is in
\* the exit-phrase loop of tavus_cvi_meeting.
SessionActive == main_pc = "listen" /\ call_state = "running"

C2_IndexIsTicksModN == current_rotation = ticks % TOTAL_ROTATIONS

\* C3: a sensor pulse that has advanced the index once does not advance it
\* again while it stays high.
C3_OneTickPerPulse == [][pulse_counted => current_rotation' = current_rotation]_vars

\* C4: the tracker loop survives every accepted tick, and when it is back at
\* its sleep or loop head every accepted tick has had its one completed send.
C4_TickThenOneSend ==
  \A s \in Sessions :
    /\ tpc[<<"motor", s>>] # "crashed"
    /\ (s = session /\ tpc[<<"motor", s>>] \in {"sleep", "loop", "poll", "done"})
         => dispatched = ticks

\* C5: whenever tavus_cvi_meeting has finished, by return or by an exception,
\* both flags are False and no worker thread is running.
C5_TeardownTotal ==
  call_state \in {"returned", "raised"} =>
    /\ ~video_capture_running
    /\ ~motor_running
    /\ \A t \in Threads : ~Alive(t)

\* C6: the worker threads of a session have both ended at the "Call ended"
\* point, and once the exit phrase has been heard main is eventually back at
\* its wake-word loop.
C6_StopLeadsToWake ==
  /\ [](main_pc = "call_ended" => \A k \in Kinds : tpc[<<k, session>>] \in Terminated)
  /\ (main_pc = "stop_video" /\ stop_reason = "exit") ~> (main_pc = "wake")

\* The exit phrase ended the call and both loops left through their loop test.
C6_Witness ==
  /\ main_pc = "call_ended"
  /\ stop_reason = "exit"
  /\ \A k \in Kinds : tpc[<<k, session>>] = "done"

\* C7: after 6 consecutive failed sends no loop starts another send.
C7_SixFailuresAbort ==
  send_fails >= 6 => \A t \in Threads : tpc[t] # "s_connect"

\* C8: a failed send goes to the close and back to the caller's sleep and next
\* iteration, and neither step changes the flags, the index or main's position.
C8_FailedSendContained ==
  [][\A t \in Threads :
       /\ (sres[t] # "failed" /\ sres'[t] = "failed")
            => /\ tpc'[t] = "s_close"
               /\ UNCHANGED <<flags, current_rotation, main_pc, call_state>>
       /\ (sres[t] = "failed" /\ tpc[t] = "s_close" /\ tpc'[t] # tpc[t])
            => /\ tpc'[t] = "sleep"
               /\ UNCHANGED <<flags, current_rotation, main_pc, call_state>>
       /\ (sres[t] = "failed" /\ tpc[t] = "sleep" /\ tpc'[t] # tpc[t])
            => tpc'[t] = "loop"]_vars

\* The capture loop is back at its sleep after a failed send, the session
\* still active and its flag still set.
C8_Witness ==
  /\ SessionActive
  /\ video_capture_running
  /\ sres[<<"video", session>>] = "failed"
  /\ tpc[<<"video", session>>] = "sleep"

\* C9: when the capture loop of the session has ended on a capture failure the
\* session is aborted: both flags are False.
C9_CaptureOutageAborts ==
  (session > 0 /\ tpc[<<"video", session>>] = "crashed")
    => (~video_capture_running /\ ~motor_running)

\* C10: at most one capture loop and one tracker loop are alive, and a session
\* has started a loop only if every loop of every earlier session has ended.
C10_OneSessionAlive ==
  /\ \A k \in Kinds : Cardinality({s \in Sessions : Alive(<<k, s>>)}) <= 1
  /\ \A s1, s2 \in Sessions :
       (s1 < s2 /\ \E k \in Kinds : tpc[<<k, s2>>] # "none")
         => \A k \in Kinds : ~Alive(<<k, s1>>)

\* A second session runs both its loops after the first session ran both.
C10_Witness ==
  /\ session >= 2
  /\ \A k \in Kinds : Alive(<<k, session>>)
  /\ \A k \in Kinds : tpc[<<k, session - 1>>] \in Terminated

\* C11: the dispatch step of an accepted tick hands the send a slice of a
\* completed slice set, the one selected by the index.
C11_DispatchSendsSlice ==
  [][\A s \in Sessions :
       (tpc[<<"motor", s>>] = "dispatch" /\ tpc'[<<"motor", s>>] # "dispatch")
         => /\ tpc'[<<"motor", s>>] = "s_connect"
            /\ payload'[<<"motor", s>>] = [kind |-> "slice", index |-> current_rotation]]_vars

\* C12: the index stays in 0..TOTAL_ROTATIONS-1, every change of it is
\* (old + 1) mod TOTAL_ROTATIONS, and only the poll step of motor_sync makes one.
C12_IndexStepsByOne ==
  /\ [](current_rotation \in 0..(TOTAL_ROTATIONS - 1))
  /\ [][current_rotation' # current_rotation =>
          /\ current_rotation' = (current_rotation + 1) % TOTAL_ROTATIONS
          /\ \E s \in Sessions : /\ tpc[<<"motor", s>>] = "poll"
                                 /\ tpc'[<<"motor", s>>] = "dispatch"
                                 /\ \A t \in Threads \ {<<"motor", s>>} : tpc'[t] = tpc[t]
          /\ UNCHANGED <<flags, main_pc>>]_vars

\* The tracker has accepted a tick that wrapped the index around to 0.
C12_Witness ==
  /\ current_rotation = 0
  /\ ticks = 1
  /\ tpc[<<"motor", session>>] = "dispatch"

\* C13: after tavus_cvi_meeting has cleared both flags each loop completes at
\* most one further send and the tracker accepts at most one further tick.
C13_StopWithinOneIteration ==
  /\ late.video <= 1
  /\ late.motor <= 1
  /\ late.ticks <= 1

\* After the stop signal the capture loop has completed a send and the tracker
\* has advanced the index once.
C13_Witness == StopSignalled /\ late.video = 1 /\ late.ticks = 1

\* C14: no session is active with its tracker loop dead on an unhandled error
\* while its capture loop is still sending.
C14_TrackerDeathEndsSession ==
  ~ /\ SessionActive
    /\ tpc[<<"motor", session>>] = "crashed"
    /\ tpc[<<"video", session>>] \in {"s_connect", "s_send", "s_close"}
    /\ video_capture_running

\* C15: in every state of a running session the tracker loop can take its
\* next step (poll, accept, dispatch, send), whatever the capture loop is
\* doing: it never waits and it is never dead.
C15_TickPathNeverWaits ==
  SessionActive => ENABLED ThreadStep(<<"motor", session>>)

\* C16: tavus_cvi_meeting is entered only from a successful
\* create_tavus_conversation, which is reached only through the wake word and
\* then the trigger phrase; while main is before the call no loop runs and no
\* flag is set, and a missed trigger or a failed request takes main back to
\* the wake-word loop with the threads and flags untouched.
C16_StartOnlyWithUrl ==
  /\ [](main_pc = "open" => conversation_url = "url")
  /\ [](main_pc \in {"wake", "trigger", "create", "open"}
          => /\ ~video_capture_running
             /\ ~motor_running
             /\ \A t \in Threads : ~Alive(t))
  /\ [][/\ (main_pc' = "open" /\ main_pc # "open") => main_pc = "create"
        /\ (main_pc' = "create" /\ main_pc # "create") => main_pc = "trigger"
        /\ (main_pc' = "trigger" /\ main_pc # "trigger") => main_pc = "wake"
        /\ (main_pc = "create" /\ main_pc' # "create" /\ conversation_url' = "None")
              => (main_pc' = "wake" /\ UNCHANGED <<flags, tpc, session>>)
        /\ (main_pc = "trigger" /\ main_pc' \notin {"trigger", "create", "cleanup"})
              => (main_pc' = "wake" /\ UNCHANGED <<flags, tpc, session>>)]_vars

\* The conversation request failed and main is back at its wake-word loop
\* with no session started.
C16_Witness ==
  /\ main_pc = "wake"
  /\ conversation_url = "None"
  /\ session = 0
  /\ \A t \in Threads : tpc[t] = "none"

\* A call of send_to_seeed_bluetooth is in progress in thread t.
InSend(t) == tpc[t] \in {"s_connect", "s_send", "s_close"}

C18_ListenErrorEndsLikeExit ==
  /\ [][(main_pc = "listen" /\ main_pc' # "listen")
          => (main_pc' = "stop_video" /\ UNCHANGED <<flags, tpc, call_state>>)]_vars
  /\ []((main_pc = "call_ended" /\ stop_reason = "error")
          => /\ ~video_capture_running
             /\ ~motor_running
             /\ \A k \in Kinds : tpc[<<k, session>>] \in Terminated
             /\ call_state = "running")
  /\ (main_pc = "stop_video" /\ stop_reason = "error")
       ~> (main_pc = "wake" /\ call_state = "returned")

\* A call ended by an exception of the listening loop has returned and main
\* is listening for the wake word again.
C18_Witness ==
  /\ main_pc = "wake"
  /\ stop_reason = "error"
  /\ call_state = "returned"

====
